---- MODULE Spec2Model ----
(***************************************************************************)
(* Model of the bid-only backtest engine of polymarket-data                *)
(* (pipelines/backtest/backtest_bidonly.py): the position ledger           *)
(* (process_trade), the settlement and aggregation (calculate_pnl), the    *)
(* replay loop (run) and the report (print_results).                       *)
(*                                                                         *)
(* Numbers.  The program computes with Python floats.  The model keeps     *)
(* every quantity as an integer count of a fixed unit:                     *)
(*   position_scale   in units of 1/ScaleDen            (1  = 0.01)        *)
(*   price            in units of 1/PriceDen dollars    (30 = $0.30)       *)
(*   token quantities in units of 1/ScaleDen tokens     (raw * scale)      *)
(*   money            in units of 1/(ScaleDen*PriceDen) dollars            *)
(* With arith = "exact" every operation is the exact rational one.  With   *)
(* arith = "float" the result of every arithmetic operation is rounded to  *)
(* MantissaBits significant bits, round-half-to-even, as IEEE-754 does     *)
(* (binary64 has 53 bits; the model uses a narrow format to keep the       *)
(* rounding cases within reach).                                           *)
(***************************************************************************)
EXTENDS Integers, Sequences, FiniteSets

VARIABLES
    arith,       \* "exact" or "float": how arithmetic results are rounded
    params,      \* BidOnlyBacktest.params (StrategyParams)
    positions,   \* BidOnlyBacktest.positions: insertion-ordered dict, as a sequence of MarketPosition
    trades_log,  \* BidOnlyBacktest.trades_log
    nrows,       \* number of rows of trades_df the loop of run has consumed
    result,      \* the BacktestResult returned by calculate_pnl (<<>> before)
    report,      \* what print_results computed (<<>> before)
    pc,          \* position in run_backtest: "loop", "calculated", "printed", "raised"
    tape,        \* trades_df when the whole frame is fixed up front (<<>> otherwise)
    taken,       \* the rows of tape that further BidOnlyBacktest instances have applied
    shards,      \* those instances: each its own positions and trades_log
    discovery,   \* updown_pipeline.market_discovery: a slug and what extract_duration returned for it
    pipeline,    \* updown_pipeline.run_pipeline: the checkpoint files, the flags, what main has run
    fetcher,     \* fetch_remaining_with_retry: per chunk, the state of its fetch_chunk_with_retry
    scraper      \* update_goldsky.scrape: the subgraph's events, the cursor, orderFilled.csv

\* the state of the backtest engine, and of the programs around it
backtest == <<arith, params, positions, trades_log, nrows, result, report, pc,
             tape, taken, shards>>
programs == <<discovery, pipeline, fetcher, scraper>>

vars == <<arith, params, positions, trades_log, nrows, result, report, pc,
         tape, taken, shards, discovery, pipeline, fetcher, scraper>>

----------------------------------------------------------------------------
(* Bounds and units *)

MaxTrades == 3          \* rows of the trade stream
MantissaBits == 3       \* significand width of the narrow float format

ScaleDen == 100         \* position_scale is counted in hundredths
PriceDen == 100         \* prices are counted in cents

One == PriceDen         \* the price 1.0
Dollar == ScaleDen * PriceDen   \* one dollar, in money units
Token == ScaleDen       \* one token, in token units

None == <<>>            \* Python None / an absent Optional
Some(x) == <<x>>
NoToken == "None"       \* Python None where a token side is expected

----------------------------------------------------------------------------
(* Float arithmetic *)

RECURSIVE Pow2(_)
Pow2(n) == IF n = 0 THEN 1 ELSE 2 * Pow2(n - 1)

\* the exponent e >= 0 of the unit in the last place of a magnitude n
RECURSIVE UlpExp(_, _)
UlpExp(n, e) == IF n < Pow2(MantissaBits + e) THEN e ELSE UlpExp(n, e + 1)

\* round-half-to-even of q + r/ulp to an integer, times ulp
RoundTo(q, r, ulp) ==
    IF 2 * r > ulp \/ (2 * r = ulp /\ q % 2 = 1) THEN (q + 1) * ulp ELSE q * ulp

\* a magnitude n rounded to a multiple of ulp
RoundUlp(n, ulp) == RoundTo(n \div ulp, n % ulp, ulp)

\* round-half-to-even of a magnitude n to MantissaBits significant bits
RoundMag(n) == RoundUlp(n, Pow2(UlpExp(n, 0)))

Round(x) == IF x < 0 THEN -RoundMag(-x) ELSE RoundMag(x)

\* the value a float operation stores for the exact result x
Fl(mode, x) == IF mode = "float" THEN Round(x) ELSE x

Min(a, b) == IF a <= b THEN a ELSE b

----------------------------------------------------------------------------
(* Data classes *)

StrategyParams(scale) ==
    [max_bid_price |-> 50, min_sell_price |-> 50, exit_window_sec |-> 900,
     position_scale |-> scale, starting_capital |-> 10000]

Position ==
    [token_amount |-> 0, cost_basis |-> 0, sell_proceeds |-> 0, tokens_sold |-> 0]

tokens_held(mode, p) == Fl(mode, p.token_amount - p.tokens_sold)

MarketPosition(market_id, crypto_type, winning_token) ==
    [market_id |-> market_id, crypto_type |-> crypto_type,
     token1 |-> Position, token2 |-> Position, winning_token |-> winning_token]

\* pos.token1 if token_side == 'token1' else pos.token2
SideOf(pos, token_side) == IF token_side = "token1" THEN pos.token1 ELSE pos.token2

\* WithSide with the token position written to both sides of the market
WithSide_Both(pos, token_side, token_pos) ==
    [pos EXCEPT !.token1 = token_pos, !.token2 = token_pos]

\* pos with that token position replaced
WithSide(pos, token_side, token_pos) ==
    IF token_side = "token1" THEN [pos EXCEPT !.token1 = token_pos]
    ELSE [pos EXCEPT !.token2 = token_pos]

\* IndexOf with every market_id addressing the latest market of the dict
IndexOf_Last(dict, market_id) == Len(dict)

\* dict lookup: the index of market_id in the insertion-ordered dict, 0 if absent
IndexOf(dict, market_id) ==
    IF \E i \in 1..Len(dict) : dict[i].market_id = market_id
    THEN CHOOSE i \in 1..Len(dict) : dict[i].market_id = market_id
    ELSE 0

HasMarket(dict, market_id) == IndexOf(dict, market_id) # 0

Get(dict, market_id) == dict[IndexOf(dict, market_id)]

----------------------------------------------------------------------------
(* BidOnlyBacktest.process_trade *)

\* ApplyBuy with the accumulators overwritten instead of incremented
ApplyBuy_Overwrite(mode, token_pos, amount, price) ==
    [token_pos EXCEPT
        !.token_amount = Fl(mode, amount),
        !.cost_basis   = Fl(mode, amount * price)]

\* the Position after a replicated BUY of amount tokens at price
ApplyBuy(mode, token_pos, amount, price) ==
    [token_pos EXCEPT
        !.token_amount = Fl(mode, token_pos.token_amount + amount),
        !.cost_basis   = Fl(mode, token_pos.cost_basis + Fl(mode, amount * price))]

\* the Position after a replicated SELL of amount tokens at price
ApplySell(mode, token_pos, amount, price) ==
    [token_pos EXCEPT
        !.tokens_sold   = Fl(mode, token_pos.tokens_sold + amount),
        !.sell_proceeds = Fl(mode, token_pos.sell_proceeds + Fl(mode, amount * price))]

\* SellAmount without the clamp to the tokens held
SellAmount_Unclamped(mode, token_pos, scaled) == scaled

\* the amount of a SELL: scaled proportionally, but not more than is held
SellAmount(mode, token_pos, scaled) == Min(tokens_held(mode, token_pos), scaled)

\* TradeAmount with BUY rows replicated only while nothing is held
TradeAmount_NoPyramid(mode, token_pos, trader_side, scaled) ==
    IF trader_side = "BUY"
    THEN (IF tokens_held(mode, token_pos) = 0 THEN scaled ELSE 0)
    ELSE IF trader_side = "SELL" THEN Min(tokens_held(mode, token_pos), scaled)
    ELSE 0

\* the amount a row replicates: BUY rows in full, SELL rows clamped, others 0
TradeAmount(mode, token_pos, trader_side, scaled) ==
    IF trader_side = "BUY" THEN scaled
    ELSE IF trader_side = "SELL" THEN SellAmount(mode, token_pos, scaled)
    ELSE 0

\* the action taken: a BUY or SELL row with a positive amount, else none
ActionOf(trader_side, amount) ==
    IF trader_side \in {"BUY", "SELL"} /\ amount > 0 THEN trader_side ELSE "None"

\* the addressed Position after the row
NewPosition(mode, token_pos, action, amount, price) ==
    IF action = "BUY" THEN ApplyBuy(mode, token_pos, amount, price)
    ELSE IF action = "SELL" THEN ApplySell(mode, token_pos, amount, price)
    ELSE token_pos

\* EnsureMarket with an unresolved market resolved by a later row
EnsureMarket_Resolve(dict, trade) ==
    IF \E i \in 1..Len(dict) : dict[i].market_id = trade.market_id
    THEN [i \in 1..Len(dict) |->
            IF dict[i].market_id = trade.market_id /\ dict[i].winning_token = NoToken
            THEN [dict[i] EXCEPT !.winning_token = trade.winning_token]
            ELSE dict[i]]
    ELSE Append(dict, MarketPosition(trade.market_id, trade.crypto_type,
                                     trade.winning_token))

\* EnsureMarket with the winning_token of a known market taken from the row
EnsureMarket_Refresh(dict, trade) ==
    IF \E i \in 1..Len(dict) : dict[i].market_id = trade.market_id
    THEN [i \in 1..Len(dict) |->
            IF dict[i].market_id = trade.market_id
            THEN [dict[i] EXCEPT !.winning_token = trade.winning_token]
            ELSE dict[i]]
    ELSE Append(dict, MarketPosition(trade.market_id, trade.crypto_type,
                                     trade.winning_token))

\* the dict with the market position of the row initialized if needed
EnsureMarket(dict, trade) ==
    IF HasMarket(dict, trade.market_id) THEN dict
    ELSE Append(dict, MarketPosition(trade.market_id, trade.crypto_type,
                                     trade.winning_token))

\* LogEntry with the amount of the historical row instead of the amount applied
LogEntry_Requested(mode, trade, action, amount) ==
    IF action # "None"
    THEN Some([timestamp |-> trade.timestamp,
               market_id |-> trade.market_id,
               token |-> trade.nonusdc_side,
               action |-> action,
               price |-> trade.price,
               amount |-> trade.token_amount * Token,
               usd |-> Fl(mode, trade.token_amount * Token * trade.price),
               crypto_type |-> trade.crypto_type])
    ELSE None

\* what process_trade returns: the log entry of an action, else None
LogEntry(mode, trade, action, amount) ==
    IF action # "None"
    THEN Some([timestamp |-> trade.timestamp,
               market_id |-> trade.market_id,
               token |-> trade.nonusdc_side,
               action |-> action,
               price |-> trade.price,
               amount |-> amount,
               usd |-> Fl(mode, amount * trade.price),
               crypto_type |-> trade.crypto_type])
    ELSE None

\* the effect of the row once its amount is known
Settle(mode, dict, i, trade, amount) ==
    [positions |->
        [dict EXCEPT ![i] =
            WithSide(@, trade.nonusdc_side,
                     NewPosition(mode, SideOf(@, trade.nonusdc_side),
                                 ActionOf(trade.trader_side, amount),
                                 amount, trade.price))],
     ret |-> LogEntry(mode, trade, ActionOf(trade.trader_side, amount), amount)]

\* TradeAt with the strategy of the docstring: buy up to max_bid_price, sell
\* from min_sell_price inside the exit window
TradeAt_Strategy(mode, prm, dict, i, trade) ==
    Settle(mode, dict, i, trade,
           IF trade.trader_side = "BUY"
           THEN (IF trade.price <= prm.max_bid_price
                 THEN Fl(mode, trade.token_amount * prm.position_scale) ELSE 0)
           ELSE IF trade.trader_side = "SELL"
           THEN (IF trade.price >= prm.min_sell_price
                    /\ trade.time_to_close_sec <= prm.exit_window_sec
                 THEN SellAmount(mode, SideOf(dict[i], trade.nonusdc_side),
                                 Fl(mode, trade.token_amount * prm.position_scale))
                 ELSE 0)
           ELSE 0)

\* TradeAt with every row that is not a SELL taken as a BUY
TradeAt_ElseBuy(mode, prm, dict, i, trade) ==
    Settle(mode, dict, i,
           [trade EXCEPT !.trader_side = IF @ = "SELL" THEN "SELL" ELSE "BUY"],
           IF trade.trader_side = "SELL"
           THEN SellAmount(mode, SideOf(dict[i], trade.nonusdc_side),
                           Fl(mode, trade.token_amount * prm.position_scale))
           ELSE Fl(mode, trade.token_amount * prm.position_scale))

\* the effect of the row on the position at index i of the dict
TradeAt(mode, prm, dict, i, trade) ==
    Settle(mode, dict, i, trade,
           TradeAmount(mode, SideOf(dict[i], trade.nonusdc_side), trade.trader_side,
                       Fl(mode, trade.token_amount * prm.position_scale)))

\* the effect of the row on a dict that holds its market
TradeIn(mode, prm, dict, trade) ==
    TradeAt(mode, prm, dict, IndexOf(dict, trade.market_id), trade)

\* process_trade: the dict after the call and the returned log entry (None if
\* the trade was not replicated)
process_trade(mode, prm, dict, trade) ==
    TradeIn(mode, prm, EnsureMarket(dict, trade), trade)

----------------------------------------------------------------------------
(* BidOnlyBacktest.calculate_pnl *)

\* the accumulators of calculate_pnl before its loop
PnlInit ==
    [total_pnl |-> 0, hypothetical_pnl |-> 0, total_volume |-> 0,
     pnl_by_crypto |-> [c \in {} |-> 0],
     winner_bought |-> 0, loser_bought |-> 0, winner_sold |-> 0, loser_sold |-> 0,
     winning_markets |-> 0, losing_markets |-> 0,
     market_pnl |-> 0, market_hypothetical |-> 0]

\* whether token_side is the winning token of pos
IsWinner(pos, token_side) == pos.winning_token = token_side

\* the value at resolution of n tokens of a side: $1 each for the winner
Resolve(mode, n, is_winner) == Fl(mode, n * (IF is_winner THEN One ELSE 0))

\* ActualPnl with the bought amount resolved instead of the tokens held
ActualPnl_Bought(mode, token_pos, is_winner) ==
    Fl(mode, Fl(mode, Resolve(mode, token_pos.token_amount, is_winner)
                      + token_pos.sell_proceeds)
             - token_pos.cost_basis)

\* resolution_value + sell_proceeds - cost_basis
ActualPnl(mode, token_pos, is_winner) ==
    Fl(mode, Fl(mode, Resolve(mode, tokens_held(mode, token_pos), is_winner)
                      + token_pos.sell_proceeds)
             - token_pos.cost_basis)

\* hypo_resolution - cost_basis
HypoPnl(mode, token_pos, is_winner) ==
    Fl(mode, Resolve(mode, token_pos.token_amount, is_winner) - token_pos.cost_basis)

\* the accumulators after a token side with a bought amount
SideAdd(mode, token_pos, is_winner, acc) ==
    [acc EXCEPT
        !.market_pnl = Fl(mode, @ + ActualPnl(mode, token_pos, is_winner)),
        !.market_hypothetical = Fl(mode, @ + HypoPnl(mode, token_pos, is_winner)),
        !.total_volume = Fl(mode, @ + Fl(mode, token_pos.cost_basis
                                               + token_pos.sell_proceeds)),
        !.winner_bought = IF is_winner THEN Fl(mode, @ + token_pos.token_amount) ELSE @,
        !.winner_sold = IF is_winner THEN Fl(mode, @ + token_pos.tokens_sold) ELSE @,
        !.loser_bought = IF is_winner THEN @ ELSE Fl(mode, @ + token_pos.token_amount),
        !.loser_sold = IF is_winner THEN @ ELSE Fl(mode, @ + token_pos.tokens_sold)]

\* SideStep with the sides skipped that hold no tokens any more
SideStep_HeldOnly(mode, pos, token_side, acc) ==
    IF tokens_held(mode, SideOf(pos, token_side)) = 0 THEN acc
    ELSE SideAdd(mode, SideOf(pos, token_side), IsWinner(pos, token_side), acc)

\* one iteration of the inner loop over the two token sides
SideStep(mode, pos, token_side, acc) ==
    IF SideOf(pos, token_side).token_amount = 0 THEN acc
    ELSE SideAdd(mode, SideOf(pos, token_side), IsWinner(pos, token_side), acc)

\* AddByCrypto with the entry of the crypto set to the P&L of the market
AddByCrypto_Overwrite(mode, by_crypto, crypto, market_pnl) ==
    [c \in DOMAIN by_crypto \cup {crypto} |->
        IF c = crypto THEN market_pnl ELSE by_crypto[c]]

\* pnl_by_crypto[crypto] += market_pnl, the key created at 0 when missing
AddByCrypto(mode, by_crypto, crypto, market_pnl) ==
    [c \in DOMAIN by_crypto \cup {crypto} |->
        IF c = crypto
        THEN Fl(mode, (IF c \in DOMAIN by_crypto THEN by_crypto[c] ELSE 0) + market_pnl)
        ELSE by_crypto[c]]

\* MarketAdd with a market of no P&L counted as a losing market
MarketAdd_ZeroLoses(mode, pos, acc) ==
    [acc EXCEPT
        !.total_pnl = Fl(mode, @ + acc.market_pnl),
        !.hypothetical_pnl = Fl(mode, @ + acc.market_hypothetical),
        !.pnl_by_crypto = AddByCrypto(mode, @, pos.crypto_type, acc.market_pnl),
        !.winning_markets = IF acc.market_pnl > 0 THEN @ + 1 ELSE @,
        !.losing_markets = IF acc.market_pnl > 0 THEN @ ELSE @ + 1]

\* the end of an iteration of the outer loop: the market's totals are added
MarketAdd(mode, pos, acc) ==
    [acc EXCEPT
        !.total_pnl = Fl(mode, @ + acc.market_pnl),
        !.hypothetical_pnl = Fl(mode, @ + acc.market_hypothetical),
        !.pnl_by_crypto = AddByCrypto(mode, @, pos.crypto_type, acc.market_pnl),
        !.winning_markets = IF acc.market_pnl > 0 THEN @ + 1 ELSE @,
        !.losing_markets = IF acc.market_pnl < 0 THEN @ + 1 ELSE @]

\* the accumulators with the per-market ones reset
MarketReset(acc) == [acc EXCEPT !.market_pnl = 0, !.market_hypothetical = 0]

\* one iteration of the outer loop over self.positions.items()
MarketStep(mode, pos, acc) ==
    MarketAdd(mode, pos,
              SideStep(mode, pos, "token2",
                       SideStep(mode, pos, "token1", MarketReset(acc))))

\* the accumulators after the first n markets of the dict, in insertion order
RECURSIVE PnlLoop(_, _, _)
PnlLoop(mode, dict, n) ==
    IF n = 0 THEN PnlInit ELSE MarketStep(mode, dict[n], PnlLoop(mode, dict, n - 1))

\* the fields of a BacktestResult
ResultFields ==
    {"total_pnl", "hypothetical_pnl", "selling_edge", "total_volume", "num_markets",
     "num_trades", "winner_tokens_bought", "loser_tokens_bought", "winner_tokens_sold",
     "loser_tokens_sold", "pnl_by_crypto", "winning_markets", "losing_markets"}

\* BacktestResult with the selling edge taken the other way round
BacktestResult_EdgeFlipped(mode, acc, num_markets, num_trades) ==
    [total_pnl |-> acc.total_pnl,
     hypothetical_pnl |-> acc.hypothetical_pnl,
     selling_edge |-> Fl(mode, acc.hypothetical_pnl - acc.total_pnl),
     total_volume |-> acc.total_volume,
     num_markets |-> num_markets,
     num_trades |-> num_trades,
     winner_tokens_bought |-> acc.winner_bought,
     loser_tokens_bought |-> acc.loser_bought,
     winner_tokens_sold |-> acc.winner_sold,
     loser_tokens_sold |-> acc.loser_sold,
     pnl_by_crypto |-> acc.pnl_by_crypto,
     winning_markets |-> acc.winning_markets,
     losing_markets |-> acc.losing_markets]

\* the BacktestResult built from the accumulators
BacktestResult(mode, acc, num_markets, num_trades) ==
    [total_pnl |-> acc.total_pnl,
     hypothetical_pnl |-> acc.hypothetical_pnl,
     selling_edge |-> Fl(mode, acc.total_pnl - acc.hypothetical_pnl),
     total_volume |-> acc.total_volume,
     num_markets |-> num_markets,
     num_trades |-> num_trades,
     winner_tokens_bought |-> acc.winner_bought,
     loser_tokens_bought |-> acc.loser_bought,
     winner_tokens_sold |-> acc.winner_sold,
     loser_tokens_sold |-> acc.loser_sold,
     pnl_by_crypto |-> acc.pnl_by_crypto,
     winning_markets |-> acc.winning_markets,
     losing_markets |-> acc.losing_markets]

\* calculate_pnl: the BacktestResult of an engine with these positions and log
calculate_pnl(mode, dict, log) ==
    BacktestResult(mode, PnlLoop(mode, dict, Len(dict)), Len(dict), Len(log))

----------------------------------------------------------------------------
(* print_results *)

\* a quotient num/den the report prints, kept as the pair
Ratio(num, den) == [num |-> num, den |-> den]

\* an edge as a share of total_pnl, printed when hypothetical_pnl != 0
EdgePct(res, edge) ==
    IF res.hypothetical_pnl # 0
    THEN Some(IF res.total_pnl # 0 THEN Ratio(edge, res.total_pnl) ELSE Ratio(0, 1))
    ELSE None

\* the win rate, printed when some market won or lost
WinRate(res) ==
    IF res.winning_markets + res.losing_markets > 0
    THEN Some(Ratio(res.winning_markets, res.winning_markets + res.losing_markets))
    ELSE None

\* whether the adverse selection ratio is computed
AdverseOn(res) == res.loser_tokens_bought > 0 /\ res.winner_tokens_bought > 0

\* the division of the adverse selection ratio: Python raises on a zero divisor
Divide(num, den) ==
    IF den = 0 THEN [raised |-> "ZeroDivisionError", adverse |-> None]
    ELSE [raised |-> "None", adverse |-> Some(Ratio(num, den))]

Adverse(mode, res) ==
    IF AdverseOn(res)
    THEN Divide(Fl(mode, res.loser_tokens_bought - res.loser_tokens_sold),
                Fl(mode, res.winner_tokens_bought - res.winner_tokens_sold))
    ELSE [raised |-> "None", adverse |-> None]

\* print_results: the ratios it computes, and the exception it raises if any
print_results(mode, res) ==
    [edge1_pct |-> EdgePct(res, res.hypothetical_pnl),
     edge2_pct |-> EdgePct(res, res.selling_edge),
     win_rate |-> WinRate(res),
     raised |-> Adverse(mode, res).raised,
     adverse |-> Adverse(mode, res).adverse]

----------------------------------------------------------------------------
(* The trade stream *)

Markets == {1, 2}
Sides == {"token1", "token2"}
Scales == {-100, 1, 100}            \* position_scale -1.0, 0.01 and 1.0

\* <<token_amount, price>> of the BUY rows: 100 @ $0.30, 1000 @ $0.30, a price
\* above 1, a negative price, a negative and a zero amount
BuyFills == {<<100, 30>>, <<1000, 30>>, <<100, 150>>, <<100, -10>>, <<-100, 30>>, <<0, 30>>}

\* <<token_amount, price>> of the SELL rows: 50 @ $0.60, 200 @ $0.70, a
\* negative price, a negative amount
SellFills == {<<50, 60>>, <<200, 70>>, <<50, -10>>, <<-100, 60>>}

\* <<trader_side, fill>> of the rows of market 1; HOLD is no trader side
Orders1 == ({"BUY"} \X BuyFills) \cup ({"SELL"} \X SellFills) \cup {<<"HOLD", <<100, 30>>>>}

\* <<trader_side, fill>> of the rows of market 2
Orders2 == {<<"BUY", <<100, 30>>>>, <<"SELL", <<200, 70>>>>}

Orders(market_id) == IF market_id = 1 THEN Orders1 ELSE Orders2

\* the winning_token column of the rows of a market: market 1 is resolved,
\* market 2 has rows without a winner
Winners(market_id) == IF market_id = 1 THEN {"token1"} ELSE {NoToken, "token1"}

CryptoOf(market_id) == IF market_id = 1 THEN "BTC" ELSE "ETH"

\* a row of trades_df, as iter_rows(named=True) yields it
Trade(timestamp, market_id, token_side, order, winning_token) ==
    [timestamp |-> timestamp, market_id |-> market_id, nonusdc_side |-> token_side,
     price |-> order[2][2], time_to_close_sec |-> 0, crypto_type |-> CryptoOf(market_id),
     trader_side |-> order[1], trader_role |-> "TAKER", token_amount |-> order[2][1],
     winning_token |-> winning_token]

\* the rows a stream may hold at a timestamp
Rows(timestamp) ==
    UNION {{Trade(timestamp, m, side, o, w) : side \in Sides, o \in Orders(m), w \in Winners(m)}
           : m \in Markets}

----------------------------------------------------------------------------
(* run_backtest: run (the replay loop, then calculate_pnl), then print_results *)

Init ==
    /\ arith = "exact"
    /\ params \in {StrategyParams(s) : s \in Scales}
    /\ positions = <<>>
    /\ trades_log = <<>>
    /\ nrows = 0
    /\ result = None
    /\ report = None
    /\ pc = "loop"
    /\ tape = <<>>
    /\ taken = {}
    /\ shards = <<>>
    /\ discovery = None
    /\ pipeline = None
    /\ fetcher = None
    /\ scraper = None

\* if result: self.trades_log.append(result)
LogAfter(log, ret) == IF ret # None THEN Append(log, ret[1]) ELSE log

\* the engine after process_trade returned r: the log grows by a result that
\* is not None
Taken(r) ==
    /\ positions' = r.positions
    /\ trades_log' = LogAfter(trades_log, r.ret)

\* one iteration of the loop of run: process_trade, and the log append
RunStep(trade) ==
    /\ pc = "loop"
    /\ nrows < MaxTrades
    /\ Taken(process_trade(arith, params, positions, trade))
    /\ nrows' = nrows + 1
    /\ UNCHANGED <<arith, params, result, report, pc, tape, taken, shards>>
    /\ UNCHANGED programs

\* AfterPnl with the ledger consumed by the call
AfterPnl_Cleared(dict, log) == [positions |-> <<>>, trades_log |-> <<>>]

\* the ledger of the instance when calculate_pnl returns: the method reads
\* self.positions and self.trades_log and assigns no attribute of self
AfterPnl(dict, log) == [positions |-> dict, trades_log |-> log]

\* the stream is exhausted: run calls calculate_pnl and returns its result
Calculate ==
    /\ pc = "loop"
    /\ result' = Some(calculate_pnl(arith, positions, trades_log))
    /\ positions' = AfterPnl(positions, trades_log).positions
    /\ trades_log' = AfterPnl(positions, trades_log).trades_log
    /\ pc' = "calculated"
    /\ UNCHANGED <<arith, params, nrows, report, tape, taken, shards>>
    /\ UNCHANGED programs

\* run_backtest passes the result to print_results
Report ==
    /\ pc = "calculated"
    /\ report' = Some(print_results(arith, result[1]))
    /\ pc' = IF report'[1].raised = "None" THEN "printed" ELSE "raised"
    /\ UNCHANGED <<arith, params, positions, trades_log, nrows, result, tape, taken, shards>>
    /\ UNCHANGED programs

Replay == \E trade \in Rows(nrows + 1) : RunStep(trade)

Next == Replay \/ Calculate \/ Report

Spec == Init /\ [][Next]_vars

----------------------------------------------------------------------------
(* The same program with float arithmetic: a stream of small trades on one *)
(* market, position_scale = 0.01, so that a row of n tokens is n units     *)

FloatOrders == {"BUY", "SELL"} \X {<<3, 30>>, <<14, 30>>, <<22, 60>>}

FloatRows(timestamp) ==
    {Trade(timestamp, 1, side, o, "token1") : side \in Sides, o \in FloatOrders}

InitFloat ==
    /\ arith = "float"
    /\ params = StrategyParams(1)
    /\ positions = <<>>
    /\ trades_log = <<>>
    /\ nrows = 0
    /\ result = None
    /\ report = None
    /\ pc = "loop"
    /\ tape = <<>>
    /\ taken = {}
    /\ shards = <<>>
    /\ discovery = None
    /\ pipeline = None
    /\ fetcher = None
    /\ scraper = None

ReplayFloat == \E trade \in FloatRows(nrows + 1) : RunStep(trade)

NextFloat == ReplayFloat \/ Calculate \/ Report

SpecFloat == InitFloat /\ [][NextFloat]_vars

----------------------------------------------------------------------------
(* The replay of a frame fixed up front, next to further BidOnlyBacktest     *)
(* instances that apply the same rows: one that takes them in any order, or  *)
(* one per market_id that takes the rows of its market in their order         *)

\* a BidOnlyBacktest instance after __init__
Engine == [positions |-> <<>>, trades_log |-> <<>>]

\* an instance after one iteration of the loop of run
EngineAfter(eng, r) ==
    [positions |-> r.positions, trades_log |-> LogAfter(eng.trades_log, r.ret)]

\* the frames of 1..MaxTrades rows, the row at index i drawn from rows[i]
Frames(rows) ==
    UNION {{f \in [1..n -> UNION {rows[i] : i \in 1..n}] : \A i \in 1..n : f[i] \in rows[i]}
           : n \in 1..MaxTrades}

\* the loop of run takes the next row of the frame
ReplayTape ==
    /\ nrows < Len(tape)
    /\ RunStep(tape[nrows + 1])

\* instance w takes row i of the frame
ShardStep(w, i) ==
    /\ i \notin taken
    /\ taken' = taken \cup {i}
    /\ shards' = [shards EXCEPT ![w] =
                    EngineAfter(@, process_trade(arith, params, @.positions, tape[i]))]
    /\ UNCHANGED <<arith, params, positions, trades_log, nrows, result, report, pc, tape>>
    /\ UNCHANGED programs

\* rows of one market and token side
OrderFills == {<<"BUY", <<100, 30>>>>, <<"BUY", <<1000, 40>>>>,
               <<"SELL", <<50, 60>>>>, <<"SELL", <<200, 70>>>>}

OrderRows(timestamp) == {Trade(timestamp, 1, "token1", o, "token1") : o \in OrderFills}

InitOrder ==
    /\ arith = "exact"
    /\ params \in {StrategyParams(s) : s \in Scales}
    /\ positions = <<>>
    /\ trades_log = <<>>
    /\ nrows = 0
    /\ result = None
    /\ report = None
    /\ pc = "loop"
    /\ tape \in Frames([i \in 1..MaxTrades |-> OrderRows(i)])
    /\ taken = {}
    /\ shards = <<Engine>>
    /\ discovery = None
    /\ pipeline = None
    /\ fetcher = None
    /\ scraper = None

\* the second instance takes any row it has not taken yet
Shuffle == \E i \in 1..Len(tape) : ShardStep(1, i)

NextOrder == ReplayTape \/ Shuffle

SpecOrder == InitOrder /\ [][NextOrder]_vars

\* rows of two markets: market 1 resolved, market 2 with or without a winner
ShardRows(timestamp) ==
    {Trade(timestamp, 1, side, o, "token1") : side \in Sides, o \in Orders2}
    \cup {Trade(timestamp, 2, "token1", o, w) : o \in Orders2, w \in Winners(2)}

InitShard ==
    /\ arith = "exact"
    /\ params = StrategyParams(ScaleDen)
    /\ positions = <<>>
    /\ trades_log = <<>>
    /\ nrows = 0
    /\ result = None
    /\ report = None
    /\ pc = "loop"
    /\ tape \in Frames([i \in 1..MaxTrades |-> ShardRows(i)])
    /\ taken = {}
    /\ shards = [m \in Markets |-> Engine]
    /\ discovery = None
    /\ pipeline = None
    /\ fetcher = None
    /\ scraper = None

\* the instance of a market takes the next row of that market
Work ==
    \E i \in 1..Len(tape) :
        /\ \A j \in 1..(i - 1) : tape[j].market_id = tape[i].market_id => j \in taken
        /\ ShardStep(tape[i].market_id, i)

\* the frame is exhausted: run calls calculate_pnl
CalculateTape ==
    /\ nrows = Len(tape)
    /\ Calculate

NextShard == ReplayTape \/ Work \/ CalculateTape

SpecShard == InitShard /\ [][NextShard]_vars

\* the BacktestResult of the instance of a market, were its run to end now
ShardResult(m) == calculate_pnl(arith, shards[m].positions, shards[m].trades_log)

\* the reduction of two results: sum of scalars, union of maps
MergeResults(a, b) ==
    [total_pnl |-> a.total_pnl + b.total_pnl,
     hypothetical_pnl |-> a.hypothetical_pnl + b.hypothetical_pnl,
     total_volume |-> a.total_volume + b.total_volume,
     pnl_by_crypto |-> [c \in DOMAIN a.pnl_by_crypto \cup DOMAIN b.pnl_by_crypto |->
                          IF c \in DOMAIN a.pnl_by_crypto THEN a.pnl_by_crypto[c]
                          ELSE b.pnl_by_crypto[c]],
     winning_markets |-> a.winning_markets + b.winning_markets,
     losing_markets |-> a.losing_markets + b.losing_markets,
     num_markets |-> a.num_markets + b.num_markets,
     num_trades |-> a.num_trades + b.num_trades,
     selling_edge |-> a.selling_edge + b.selling_edge,
     winner_tokens_bought |-> a.winner_tokens_bought + b.winner_tokens_bought,
     loser_tokens_bought |-> a.loser_tokens_bought + b.loser_tokens_bought,
     winner_tokens_sold |-> a.winner_tokens_sold + b.winner_tokens_sold,
     loser_tokens_sold |-> a.loser_tokens_sold + b.loser_tokens_sold]

----------------------------------------------------------------------------
(* run on a frame whose rows come in any order: the sort, the loop,         *)
(* calculate_pnl, and a caller that calls calculate_pnl once more            *)

Stamps == {1, 2}

\* the rows of the frame: rows of market 1 that disagree on the winner, a row
\* with no trader side, a price above 1, and a market without a winner
RunRows ==
    UNION {{Trade(t, 1, "token1", <<"BUY", <<100, 30>>>>, "token1"),
            Trade(t, 1, "token1", <<"SELL", <<200, 70>>>>, "token2"),
            Trade(t, 1, "token2", <<"HOLD", <<100, 30>>>>, "token1"),
            Trade(t, 1, "token2", <<"BUY", <<100, 150>>>>, "token2"),
            Trade(t, 2, "token1", <<"BUY", <<100, 30>>>>, NoToken)} : t \in Stamps}

\* the orders of n rows
Perms(n) == {p \in [1..n -> 1..n] : \A i, j \in 1..n : p[i] = p[j] => i = j}

\* sort_Unsorted: the frame as it came
sort_Unsorted(df) == {df}

\* trades_df.sort('timestamp'): the rows by ascending timestamp; the order of
\* rows with equal timestamps is not specified (maintain_order is not set)
sort(df) ==
    {g \in {[i \in 1..Len(df) |-> df[p[i]]] : p \in Perms(Len(df))} :
        \A i \in 1..(Len(df) - 1) : g[i].timestamp <= g[i + 1].timestamp}

InitRun ==
    /\ arith = "exact"
    /\ params = StrategyParams(ScaleDen)
    /\ positions = <<>>
    /\ trades_log = <<>>
    /\ nrows = 0
    /\ result = None
    /\ report = None
    /\ pc = "sort"
    /\ tape \in Frames([i \in 1..MaxTrades |-> RunRows])
    /\ taken = {}
    /\ shards = <<>>
    /\ discovery = None
    /\ pipeline = None
    /\ fetcher = None
    /\ scraper = None

\* trades_df = trades_df.sort('timestamp')
Sort ==
    /\ pc = "sort"
    /\ tape' \in sort(tape)
    /\ pc' = "loop"
    /\ UNCHANGED <<arith, params, positions, trades_log, nrows, result, report,
                   taken, shards>>
    /\ UNCHANGED programs

\* a caller calls calculate_pnl again on the same instance
Recalculate ==
    /\ pc = "calculated"
    /\ result' = Some(calculate_pnl(arith, positions, trades_log))
    /\ positions' = AfterPnl(positions, trades_log).positions
    /\ trades_log' = AfterPnl(positions, trades_log).trades_log
    /\ pc' = "recalculated"
    /\ UNCHANGED <<arith, params, nrows, report, tape, taken, shards>>
    /\ UNCHANGED programs

NextRun == Sort \/ ReplayTape \/ CalculateTape \/ Recalculate

SpecRun == InitRun /\ [][NextRun]_vars

----------------------------------------------------------------------------
(* Two BidOnlyBacktest instances on one frame: one with its own strategy    *)
(* parameters, one with the defaults of StrategyParams                       *)

\* rows of one market: cheap and dear BUYs and SELLs, near and far from the close
TwinRows(timestamp) ==
    {Trade(timestamp, 1, "token1", <<"BUY", <<100, 30>>>>, "token1"),
     [Trade(timestamp, 1, "token1", <<"BUY", <<100, 80>>>>, "token1")
        EXCEPT !.time_to_close_sec = 2000],
     [Trade(timestamp, 1, "token1", <<"SELL", <<50, 20>>>>, "token1")
        EXCEPT !.time_to_close_sec = 2000],
     [Trade(timestamp, 1, "token1", <<"SELL", <<200, 70>>>>, "token1")
        EXCEPT !.time_to_close_sec = 100]}

\* StrategyParams that differ from the defaults in one or all of max_bid_price,
\* min_sell_price, exit_window_sec and starting_capital
ParamChoices ==
    {[StrategyParams(ScaleDen) EXCEPT !.max_bid_price = 20],
     [StrategyParams(ScaleDen) EXCEPT !.min_sell_price = 80],
     [StrategyParams(ScaleDen) EXCEPT !.exit_window_sec = 60],
     [StrategyParams(ScaleDen) EXCEPT !.starting_capital = 1],
     [StrategyParams(ScaleDen) EXCEPT !.max_bid_price = 20, !.min_sell_price = 80,
                                      !.exit_window_sec = 60, !.starting_capital = 1]}

InitTwin ==
    /\ arith = "exact"
    /\ params \in ParamChoices
    /\ positions = <<>>
    /\ trades_log = <<>>
    /\ nrows = 0
    /\ result = None
    /\ report = None
    /\ pc = "loop"
    /\ tape \in Frames([i \in 1..MaxTrades |-> TwinRows(i)])
    /\ taken = {}
    /\ shards = <<Engine>>
    /\ discovery = None
    /\ pipeline = None
    /\ fetcher = None
    /\ scraper = None

\* the instance with the default parameters takes its next row
TwinStep ==
    /\ Cardinality(taken) < Len(tape)
    /\ taken' = taken \cup {Cardinality(taken) + 1}
    /\ shards' = [shards EXCEPT ![1] =
                    EngineAfter(@, process_trade(arith, StrategyParams(params.position_scale),
                                                 @.positions, tape[Cardinality(taken) + 1]))]
    /\ UNCHANGED <<arith, params, positions, trades_log, nrows, result, report, pc, tape>>
    /\ UNCHANGED programs

NextTwin == ReplayTape \/ TwinStep \/ CalculateTape

SpecTwin == InitTwin /\ [][NextTwin]_vars

----------------------------------------------------------------------------
(* run on a frame of three markets, two of one crypto type, with rows of a  *)
(* market that disagree on its winner and its crypto type                    *)

LedgerRows(timestamp) ==
    {Trade(timestamp, 1, "token1", <<"BUY", <<100, 30>>>>, "token1"),
     Trade(timestamp, 2, "token1", <<"BUY", <<100, 30>>>>, NoToken),
     Trade(timestamp, 2, "token1", <<"SELL", <<200, 70>>>>, "token1"),
     [Trade(timestamp, 2, "token2", <<"BUY", <<100, 30>>>>, "token2")
        EXCEPT !.crypto_type = "BTC"],
     Trade(timestamp, 3, "token1", <<"BUY", <<100, 30>>>>, "token1"),
     Trade(timestamp, 3, "token1", <<"SELL", <<200, 70>>>>, "token1")}

InitLedger ==
    /\ arith = "exact"
    /\ params = StrategyParams(ScaleDen)
    /\ positions = <<>>
    /\ trades_log = <<>>
    /\ nrows = 0
    /\ result = None
    /\ report = None
    /\ pc = "loop"
    /\ tape \in Frames([i \in 1..MaxTrades |-> LedgerRows(i)])
    /\ taken = {}
    /\ shards = <<>>
    /\ discovery = None
    /\ pipeline = None
    /\ fetcher = None
    /\ scraper = None

NextLedger == ReplayTape \/ CalculateTape \/ Report

SpecLedger == InitLedger /\ [][NextLedger]_vars

----------------------------------------------------------------------------
(* updown_pipeline.market_discovery.extract_duration *)
(* A str is the sequence of its characters, each a one-character string.    *)

\* the most words a slug of the model is joined from
MaxParts == 2

\* s + t
Concat(s, t) == s \o t

\* p in s: p occurs in s as a run of consecutive characters
Contains(s, p) ==
    \E i \in 1..(Len(s) - Len(p) + 1) : SubSeq(s, i, i + Len(p) - 1) = p

\* a character of str.lower(): the upper-case letters the slugs of the model hold
LowerChar(c) ==
    CASE c = "M" -> "m"
      [] c = "F" -> "f"
      [] OTHER -> c

\* slug.lower()
lower(s) == [i \in 1..Len(s) |-> LowerChar(s[i])]

\* config.DURATION_PATTERNS: a dict, iterated in the order its keys are written
DURATION_PATTERNS ==
    <<[duration |-> "5m",
        patterns |-> <<<<"5", "m">>,
                      <<"-", "5", "m", "-">>,
                      <<"5", " ", "m", "i", "n">>,
                      <<"f", "i", "v", "e", " ", "m", "i", "n", "u", "t", "e">>>>],
      [duration |-> "15m",
        patterns |-> <<<<"1", "5", "m">>,
                      <<"-", "1", "5", "m", "-">>,
                      <<"1", "5", " ", "m", "i", "n">>,
                      <<"f", "i", "f", "t", "e", "e", "n", " ", "m", "i", "n", "u", "t", "e">>>>],
      [duration |-> "1h",
        patterns |-> <<<<"1", "h">>,
                      <<"-", "1", "h", "-">>,
                      <<"1", " ", "h", "o", "u", "r">>,
                      <<"o", "n", "e", " ", "h", "o", "u", "r">>>>]>>

\* any(pattern in slug_lower for pattern in patterns)
AnyPattern(slug_lower, patterns) ==
    \E k \in 1..Len(patterns) : Contains(slug_lower, patterns[k])

\* the loop of extract_duration from the i-th item of DURATION_PATTERNS on:
\* the first duration one of whose patterns is in slug_lower, None after the last
DurationFrom(slug_lower, i) ==
    IF \E j \in i..Len(DURATION_PATTERNS) :
           AnyPattern(slug_lower, DURATION_PATTERNS[j].patterns)
    THEN Some(DURATION_PATTERNS[
             CHOOSE j \in i..Len(DURATION_PATTERNS) :
                 /\ AnyPattern(slug_lower, DURATION_PATTERNS[j].patterns)
                 /\ \A h \in i..(j - 1) :
                        ~AnyPattern(slug_lower, DURATION_PATTERNS[h].patterns)
         ].duration)
    ELSE None

\* extract_duration(slug)
extract_duration(slug) == DurationFrom(lower(slug), 1)

\* the words slugs are joined from, with "-" between two words
Words ==
    {<<"b", "t", "c">>,
     <<"u", "p", "d", "o", "w", "n">>,
     <<"5", "m">>,
     <<"1", "5", "m">>,
     <<"1", "5", "M">>,
     <<"1", "h">>,
     <<"2", "h">>,
     <<"5", " ", "m", "i", "n">>,
     <<"1", "5", " ", "m", "i", "n">>,
     <<"F", "i", "f", "t", "e", "e", "n", " ", "M", "i", "n", "u", "t", "e">>,
     <<"1", " ", "h", "o", "u", "r">>,
     <<"1", "7", "6">>}

\* the slugs of n words
RECURSIVE Slugs(_)
Slugs(n) ==
    IF n = 1 THEN Words
    ELSE {Concat(Concat(s, <<"-">>), w) : s \in Slugs(n - 1), w \in Words}

\* a caller holds a slug
InitDiscovery ==
    /\ arith = "exact"
    /\ params = StrategyParams(ScaleDen)
    /\ positions = <<>>
    /\ trades_log = <<>>
    /\ nrows = 0
    /\ result = None
    /\ report = None
    /\ pc = "idle"
    /\ tape = <<>>
    /\ taken = {}
    /\ shards = <<>>
    /\ discovery \in {[slug |-> s, returned |-> FALSE, duration |-> None] :
                         s \in UNION {Slugs(n) : n \in 1..MaxParts}}
    /\ pipeline = None
    /\ fetcher = None
    /\ scraper = None

\* the caller calls extract_duration on its slug
ExtractDuration ==
    /\ discovery # None
    /\ ~discovery.returned
    /\ discovery' = [discovery EXCEPT !.returned = TRUE,
                                      !.duration = extract_duration(discovery.slug)]
    /\ UNCHANGED <<backtest, pipeline, fetcher, scraper>>

NextDiscovery == ExtractDuration

SpecDiscovery == InitDiscovery /\ [][NextDiscovery]_vars

----------------------------------------------------------------------------
(* updown_pipeline.checkpoint.CheckpointManager and updown_pipeline.run_pipeline *)
(* The checkpoint files are the set of the stages whose file exists.  What a    *)
(* stage function returns is Some(count), or Raised when it raises.             *)

\* the keys of CheckpointManager.checkpoints
Stages == {"markets", "historical", "enriched"}

\* a stage function raised instead of returning a count
Raised == None

\* what a stage function can hand back
Returns == {Some(n) : n \in {-1, 0, 1}} \cup {Raised}

\* CheckpointManager.exists(stage)
exists(checkpoints, stage) == stage \in checkpoints

\* CheckpointManager.mark_done(stage, metadata): the file is written
mark_done(checkpoints, stage) == checkpoints \cup {stage}

\* all_phase1_complete looking at the markets checkpoint alone
all_phase1_complete_MarketsOnly(checkpoints) == exists(checkpoints, "markets")

\* CheckpointManager.all_phase1_complete()
all_phase1_complete(checkpoints) ==
    \A stage \in {"markets", "historical", "enriched"} : exists(checkpoints, stage)

\* CheckpointManager.clear() without a stage: every file is unlinked
clear(checkpoints) == {}

\* run_phase1 at its start: nothing run, not returned
Phase1Start(checkpoints) ==
    [checkpoints |-> checkpoints, ran |-> <<>>, ret |-> "running"]

\* Stage 1 going on to Stage 2 when no market was discovered
Stage1_NoReturn(st, force_refresh, market_count) ==
    IF force_refresh \/ ~exists(st.checkpoints, "markets")
    THEN [st EXCEPT !.ran = Append(@, "markets"),
                    !.checkpoints = IF market_count # Raised /\ market_count[1] > 0
                                    THEN mark_done(@, "markets") ELSE @,
                    !.ret = IF market_count = Raised THEN "raised" ELSE @]
    ELSE st

\* Stage 1: Market Discovery
Stage1(st, force_refresh, market_count) ==
    IF force_refresh \/ ~exists(st.checkpoints, "markets")
    THEN IF market_count = Raised
         THEN [st EXCEPT !.ran = Append(@, "markets"), !.ret = "raised"]
         ELSE IF market_count[1] > 0
         THEN [st EXCEPT !.ran = Append(@, "markets"),
                         !.checkpoints = mark_done(@, "markets")]
         ELSE [st EXCEPT !.ran = Append(@, "markets"), !.ret = "False"]
    ELSE st

\* Stage 2A and 2B: Fetch Historical Trades, Fetch CLOB Trades
Stage2(st, force_refresh, trade_count, clob_count) ==
    IF st.ret # "running" THEN st
    ELSE IF force_refresh \/ ~exists(st.checkpoints, "historical")
    THEN IF trade_count = Raised \/ clob_count = Raised
         THEN [st EXCEPT !.ran = Append(@, "historical"), !.ret = "raised"]
         ELSE [st EXCEPT !.ran = Append(@, "historical"),
                         !.checkpoints = mark_done(@, "historical")]
    ELSE st

\* Stage 3: Integrate Binance Prices
Stage3(st, force_refresh, enriched_count) ==
    IF st.ret # "running" THEN st
    ELSE IF force_refresh \/ ~exists(st.checkpoints, "enriched")
    THEN IF enriched_count = Raised
         THEN [st EXCEPT !.ran = Append(@, "enriched"), !.ret = "raised"]
         ELSE IF enriched_count[1] >= 0
         THEN [st EXCEPT !.ran = Append(@, "enriched"),
                         !.checkpoints = mark_done(@, "enriched")]
         ELSE [st EXCEPT !.ran = Append(@, "enriched"), !.ret = "False"]
    ELSE st

\* return True
Phase1End(st) == IF st.ret = "running" THEN [st EXCEPT !.ret = "True"] ELSE st

\* run_phase1(checkpoints, force_refresh), the stage functions handing back outs
run_phase1(checkpoints, force_refresh, outs) ==
    Phase1End(
        Stage3(
            Stage2(
                Stage1(Phase1Start(checkpoints), force_refresh, outs[1]),
                force_refresh, outs[2], outs[3]),
            force_refresh, outs[4]))

\* the command lines of main
Args ==
    [force_refresh : BOOLEAN, stream_only : BOOLEAN, no_stream : BOOLEAN,
     clear_checkpoints : BOOLEAN]

\* main ends without Phase 1: streaming started or not, with an exit status
Ended(args, checkpoints, streaming, exit) ==
    [checkpoints |-> checkpoints, op |-> "main", args |-> Some(args), ran |-> <<>>,
     returned |-> None, streaming |-> streaming, exit |-> exit]

\* main from "Run Phase 1" on: sys.exit(1) when run_phase1 returned False (an
\* exception leaves the interpreter with status 1 too), else Phase 2 unless
\* --no-stream
AfterPhase1(args, st) ==
    [checkpoints |-> st.checkpoints, op |-> "main", args |-> Some(args),
     ran |-> st.ran, returned |-> Some(st.ret),
     streaming |-> st.ret = "True" /\ ~args.no_stream,
     exit |-> IF st.ret = "True" THEN 0 ELSE 1]

\* main after "Clear checkpoints if requested"
MainFrom(args, checkpoints, recent, outs) ==
    IF args.stream_only
    THEN IF ~all_phase1_complete(checkpoints)
         THEN Ended(args, checkpoints, FALSE, 1)
         ELSE Ended(args, checkpoints, TRUE, 0)
    ELSE IF all_phase1_complete(checkpoints) /\ ~args.force_refresh /\ recent
    THEN Ended(args, checkpoints, ~args.no_stream, 0)
    ELSE AfterPhase1(args, run_phase1(checkpoints, args.force_refresh, outs))

\* main(): recent is what is_recent('enriched') answers
main(args, checkpoints, recent, outs) ==
    MainFrom(args, IF args.clear_checkpoints THEN clear(checkpoints) ELSE checkpoints,
             recent, outs)

\* a fresh data directory: no checkpoint file, nothing run
InitPipeline ==
    /\ arith = "exact"
    /\ params = StrategyParams(ScaleDen)
    /\ positions = <<>>
    /\ trades_log = <<>>
    /\ nrows = 0
    /\ result = None
    /\ report = None
    /\ pc = "idle"
    /\ tape = <<>>
    /\ taken = {}
    /\ shards = <<>>
    /\ discovery = None
    /\ pipeline = [checkpoints |-> {}, op |-> "none", args |-> None, ran |-> <<>>,
                   returned |-> None, streaming |-> FALSE, exit |-> 0]
    /\ fetcher = None
    /\ scraper = None

\* python -m updown_pipeline.run_pipeline with a command line
Main ==
    /\ pipeline # None
    /\ \E args \in Args, recent \in BOOLEAN, outs \in [1..4 -> Returns] :
           pipeline' = main(args, pipeline.checkpoints, recent, outs)
    /\ UNCHANGED <<backtest, discovery, fetcher, scraper>>

\* a caller calls run_phase1 on the checkpoint manager
RunPhase1 ==
    /\ pipeline # None
    /\ \E force_refresh \in BOOLEAN, outs \in [1..4 -> Returns] :
           LET st == run_phase1(pipeline.checkpoints, force_refresh, outs)
           IN  pipeline' = [checkpoints |-> st.checkpoints, op |-> "run_phase1",
                            args |-> None, ran |-> st.ran, returned |-> Some(st.ret),
                            streaming |-> FALSE, exit |-> 0]
    /\ UNCHANGED <<backtest, discovery, fetcher, scraper>>

\* a caller calls checkpoints.clear()
Clear ==
    /\ pipeline # None
    /\ pipeline' = [checkpoints |-> clear(pipeline.checkpoints), op |-> "clear",
                    args |-> None, ran |-> <<>>, returned |-> None,
                    streaming |-> FALSE, exit |-> 0]
    /\ UNCHANGED <<backtest, discovery, fetcher, scraper>>

NextPipeline == Main \/ RunPhase1 \/ Clear

SpecPipeline == InitPipeline /\ [][NextPipeline]_vars

----------------------------------------------------------------------------
(* utils.price_fetchers.fetch_remaining_with_retry *)
(* main gathers one fetch_chunk_with_retry task per chunk; a task gives way  *)
(* at its awaits: the call of fetch_chunk_raw and asyncio.sleep.             *)

MAX_RETRIES == 5

\* the chunk ids of the tasks in flight (fewer than MAX_PARALLEL: the
\* semaphore never holds a task back)
Chunks == {"13", "14"}

\* backoff growing by 2 seconds per attempt
Backoff_Linear(attempt) == 2 * attempt

\* backoff = 2 ** attempt
Backoff(attempt) == Pow2(attempt)

\* a task entering fetch_chunk_with_retry: attempt = 1, nothing called yet
TaskStart ==
    [attempt |-> 1, outcomes |-> <<>>, slept |-> <<>>, pc |-> "call", ret |-> None]

\* return (chunk_id, raw_path, True, attempt)
Succeeded(task, chunk_id) ==
    [task EXCEPT !.outcomes = Append(@, TRUE),
                 !.pc = "returned",
                 !.ret = Some([chunk_id |-> chunk_id, success |-> TRUE,
                               attempt |-> task.attempt])]

\* except Exception: sleep when attempt < MAX_RETRIES, else
\* return (chunk_id, None, False, attempt)
Failed(task, chunk_id) ==
    IF task.attempt < MAX_RETRIES
    THEN [task EXCEPT !.outcomes = Append(@, FALSE), !.pc = "sleep"]
    ELSE [task EXCEPT !.outcomes = Append(@, FALSE),
                      !.pc = "returned",
                      !.ret = Some([chunk_id |-> chunk_id, success |-> FALSE,
                                    attempt |-> task.attempt])]

\* asyncio.sleep(backoff) is over: the loop goes to the next attempt
Slept(task) ==
    [task EXCEPT !.slept = Append(@, Backoff(task.attempt)),
                 !.attempt = @ + 1,
                 !.pc = "call"]

InitFetcher ==
    /\ arith = "exact"
    /\ params = StrategyParams(ScaleDen)
    /\ positions = <<>>
    /\ trades_log = <<>>
    /\ nrows = 0
    /\ result = None
    /\ report = None
    /\ pc = "idle"
    /\ tape = <<>>
    /\ taken = {}
    /\ shards = <<>>
    /\ discovery = None
    /\ pipeline = None
    /\ fetcher = [chunk_id \in Chunks |-> TaskStart]
    /\ scraper = None

\* await fetch_chunk_raw(...) of one task: it returns a path or raises
FetchChunkRaw(chunk_id) ==
    /\ fetcher # None
    /\ fetcher[chunk_id].pc = "call"
    /\ \E raised \in BOOLEAN :
           fetcher' = [fetcher EXCEPT ![chunk_id] =
                           IF raised THEN Failed(@, chunk_id) ELSE Succeeded(@, chunk_id)]
    /\ UNCHANGED <<backtest, discovery, pipeline, scraper>>

\* await asyncio.sleep(backoff) of one task
Sleep(chunk_id) ==
    /\ fetcher # None
    /\ fetcher[chunk_id].pc = "sleep"
    /\ fetcher' = [fetcher EXCEPT ![chunk_id] = Slept(@)]
    /\ UNCHANGED <<backtest, discovery, pipeline, scraper>>

Attempt == \E chunk_id \in Chunks : FetchChunkRaw(chunk_id)

Wait == \E chunk_id \in Chunks : Sleep(chunk_id)

NextFetcher == Attempt \/ Wait

SpecFetcher == InitFetcher /\ [][NextFetcher]_vars

----------------------------------------------------------------------------
(* pipelines.full.update_goldsky: get_latest_timestamp and scrape *)
(* The subgraph holds orderFilled events, each with its id and timestamp,    *)
(* and answers a query with the first at_once of them in timestamp order     *)
(* (ties by id) among those with a timestamp above the cursor.               *)

\* the most events the subgraph holds
MaxEvents == 4

\* at_once: the page size scrape is called with
AtOnce == 2

\* the timestamps of the events
EventStamps == {1, 2, 3}

\* the subgraphs: event id i has timestamp ev[i], ids in timestamp order
Subgraphs ==
    {ev \in UNION {[1..n -> EventStamps] : n \in 0..MaxEvents} :
         \A i \in 1..(Len(ev) - 1) : ev[i] <= ev[i + 1]}

\* the rows of the events with ids lo..hi
EventRows(ev, lo, hi) == [k \in 1..(hi - lo + 1) |-> [id |-> lo + k - 1, timestamp |-> ev[lo + k - 1]]]

\* the ids of the events where: {timestamp_gt: last_value}
Above(ev, last_value) == {i \in 1..Len(ev) : ev[i] > last_value}

\* orderFilledEvents(orderBy: timestamp, first: at_once, where: {timestamp_gt: last_value})
Query(ev, at_once, last_value) ==
    IF Above(ev, last_value) = {} THEN <<>>
    ELSE LET lo == CHOOSE i \in Above(ev, last_value) :
                       \A j \in Above(ev, last_value) : i <= j
         IN  EventRows(ev, lo, Min(lo + at_once - 1, Len(ev)))

\* get_latest_timestamp(): 0 without a file, else the timestamp of its last line
get_latest_timestamp(csv) ==
    IF csv = None \/ csv[1] = <<>> THEN 0 ELSE csv[1][Len(csv[1])].timestamp

\* to_csv: appended to the file, or the file created
to_csv(csv, rows) == IF csv = None THEN Some(rows) ELSE Some(csv[1] \o rows)

\* one pass of the loop of scrape on the answer res to its query
Pass(s, res) ==
    IF res = <<>>
    THEN [s EXCEPT !.pc = "done"]
    ELSE [s EXCEPT !.last_value = res[Len(res)].timestamp,
                   !.count = @ + 1,
                   !.total_records = @ + Len(res),
                   !.csv = to_csv(@, res),
                   !.pc = IF Len(res) < s.at_once THEN "done" ELSE "loop"]

\* goldsky/orderFilled.csv is absent, or holds the rows of an earlier run
InitScrape ==
    /\ arith = "exact"
    /\ params = StrategyParams(ScaleDen)
    /\ positions = <<>>
    /\ trades_log = <<>>
    /\ nrows = 0
    /\ result = None
    /\ report = None
    /\ pc = "idle"
    /\ tape = <<>>
    /\ taken = {}
    /\ shards = <<>>
    /\ discovery = None
    /\ pipeline = None
    /\ fetcher = None
    /\ scraper \in {[events |-> ev, at_once |-> AtOnce, csv |-> csv, start |-> 0,
                     last_value |-> 0, count |-> 0, total_records |-> 0,
                     pc |-> "start"] :
                        ev \in Subgraphs,
                        csv \in {None, Some(<<[id |-> 0, timestamp |-> 1]>>)}}

\* scrape up to its loop: last_value = get_latest_timestamp()
Start ==
    /\ scraper # None
    /\ scraper.pc = "start"
    /\ scraper' = [scraper EXCEPT !.start = get_latest_timestamp(scraper.csv),
                                  !.last_value = get_latest_timestamp(scraper.csv),
                                  !.pc = "loop"]
    /\ UNCHANGED <<backtest, discovery, pipeline, fetcher>>

\* client.execute raised: sleep 5 seconds and ask again
QueryError ==
    /\ scraper # None
    /\ scraper.pc = "loop"
    /\ UNCHANGED vars

\* one pass of the loop with an answered query
Batch ==
    /\ scraper # None
    /\ scraper.pc = "loop"
    /\ scraper' = Pass(scraper, Query(scraper.events, scraper.at_once, scraper.last_value))
    /\ UNCHANGED <<backtest, discovery, pipeline, fetcher>>

NextScrape == Start \/ QueryError \/ Batch

SpecScrape == InitScrape /\ [][NextScrape]_vars

----------------------------------------------------------------------------
(* Properties *)

TokenSides(pos) == {pos.token1, pos.token2}

\* the token position a row addresses, in a dict (a fresh one before the
\* market's first row)
TokenPos(dict, market_id, token_side) ==
    IF HasMarket(dict, market_id) THEN SideOf(Get(dict, market_id), token_side)
    ELSE Position

LogEntries == {trades_log[i] : i \in 1..Len(trades_log)}

\* the loop of run is about to take a row
Stepping == pc = "loop" /\ nrows < MaxTrades

\* the engine after the loop of run has taken the row tr in the current state
After(tr) ==
    [positions |-> process_trade(arith, params, positions, tr).positions,
     trades_log |-> LogAfter(trades_log, process_trade(arith, params, positions, tr).ret)]

\* taking the row tr changes no token position but the one it addresses
Untouched(tr) ==
    \A i \in 1..Len(After(tr).positions) : \A side \in Sides :
        (After(tr).positions[i].market_id # tr.market_id \/ side # tr.nonusdc_side) =>
            SideOf(After(tr).positions[i], side)
              = TokenPos(positions, After(tr).positions[i].market_id, side)

\* the addressed token position before and after the row tr
Before(tr) == TokenPos(positions, tr.market_id, tr.nonusdc_side)
Addressed(tr) == TokenPos(After(tr).positions, tr.market_id, tr.nonusdc_side)

\* C1: after any sequence of process_trade calls every token position of
\* every market has tokens_sold <= token_amount (tokens_held >= 0).
C1_NeverOversold ==
    \A i \in 1..Len(positions) : \A p \in TokenSides(positions[i]) :
        p.tokens_sold <= p.token_amount

\* the effect C2 claims of a SELL row with scaled request r on h held tokens
SellEffect(tr, r, h) ==
    /\ r > 0 =>
        /\ Addressed(tr).tokens_sold = Before(tr).tokens_sold + Min(r, h)
        /\ Addressed(tr).sell_proceeds = Before(tr).sell_proceeds + Min(r, h) * tr.price
        /\ Addressed(tr).token_amount = Before(tr).token_amount
        /\ Addressed(tr).cost_basis = Before(tr).cost_basis
    /\ h = 0 =>
        /\ Addressed(tr) = Before(tr)
        /\ Untouched(tr)
        /\ After(tr).trades_log = trades_log

\* C2: a SELL with scaled request r > 0 on a position holding h adds exactly
\* min(r, h) to tokens_sold and min(r, h) * price to sell_proceeds; with
\* h = 0 it changes no token position and adds no log entry.
C2_SellClamped ==
    Stepping =>
        \A tr \in Rows(nrows + 1) :
            tr.trader_side = "SELL" =>
                SellEffect(tr, tr.token_amount * params.position_scale,
                           Before(tr).token_amount - Before(tr).tokens_sold)

\* C2 witness: at position_scale 1.0 a SELL of 200 was applied to 50 held
\* tokens and sold exactly 50 (only the rows of 200 sell at $0.70).
C2_Witness ==
    /\ params.position_scale = ScaleDen
    /\ \E e \in LogEntries : e.action = "SELL" /\ e.price = 70 /\ e.amount = 50 * Token

\* the effect C3 claims of a BUY row with scaled amount
BuyEffect(tr, amount) ==
    /\ Addressed(tr).token_amount = Before(tr).token_amount + amount
    /\ Addressed(tr).cost_basis = Before(tr).cost_basis + amount * tr.price
    /\ Addressed(tr).tokens_sold = Before(tr).tokens_sold
    /\ Addressed(tr).sell_proceeds = Before(tr).sell_proceeds

\* C3 as stated: a BUY with raw amount a >= 0 and price in [0,1] adds exactly
\* a * position_scale to the bought amount and a * position_scale * price to
\* cost_basis, and leaves tokens_sold and sell_proceeds alone.
C3_BuyAdds_Original ==
    Stepping =>
        \A tr \in Rows(nrows + 1) :
            (tr.trader_side = "BUY" /\ tr.token_amount >= 0
                /\ tr.price >= 0 /\ tr.price <= One) =>
                BuyEffect(tr, tr.token_amount * params.position_scale)

\* C3 amended: the same, for a BUY whose scaled amount a * position_scale is
\* not negative (with a negative position_scale the BUY is skipped).
C3_BuyAdds ==
    Stepping =>
        \A tr \in Rows(nrows + 1) :
            (tr.trader_side = "BUY" /\ tr.token_amount >= 0
                /\ tr.token_amount * params.position_scale >= 0
                /\ tr.price >= 0 /\ tr.price <= One) =>
                BuyEffect(tr, tr.token_amount * params.position_scale)

\* C3 witness: at position_scale 0.01 a BUY of 1000 tokens at $0.30 was
\* applied to a fresh position, which now holds exactly 10 tokens.
C3_Witness ==
    /\ params.position_scale = 1
    /\ Len(trades_log) = 1
    /\ trades_log[1].action = "BUY" /\ trades_log[1].price = 30
    /\ TokenPos(positions, trades_log[1].market_id, trades_log[1].token).token_amount
         = 10 * Token
    /\ TokenPos(positions, trades_log[1].market_id, trades_log[1].token).cost_basis
         = 3 * Dollar

\* the sum of a sequence of numbers
RECURSIVE SeqSum(_)
SeqSum(seq) == IF seq = <<>> THEN 0 ELSE Head(seq) + SeqSum(Tail(seq))

Resolved(pos) == pos.winning_token \in Sides

\* the P&L the settlement rule gives a token side: held tokens pay $1 each if
\* the side won, plus the proceeds of the sells, minus the cost of the buys
RuleSidePnl(p, won) ==
    (p.token_amount - p.tokens_sold) * (IF won THEN One ELSE 0)
    + p.sell_proceeds - p.cost_basis

\* the same had nothing been sold
RuleSideHypo(p, won) == p.token_amount * (IF won THEN One ELSE 0) - p.cost_basis

RuleMarketPnl(pos) ==
    RuleSidePnl(pos.token1, pos.winning_token = "token1")
    + RuleSidePnl(pos.token2, pos.winning_token = "token2")

RuleMarketHypo(pos) ==
    RuleSideHypo(pos.token1, pos.winning_token = "token1")
    + RuleSideHypo(pos.token2, pos.winning_token = "token2")

\* a position of 100 tokens bought at $0.30 of which 50 were sold at $0.60
ScenarioB == [token_amount |-> 100 * Token, cost_basis |-> 30 * Dollar,
              sell_proceeds |-> 30 * Dollar, tokens_sold |-> 50 * Token]

\* the only market holds ScenarioB on its winning side and nothing on the other
InScenarioB ==
    /\ Len(positions) = 1
    /\ Resolved(positions[1])
    /\ SideOf(positions[1], positions[1].winning_token) = ScenarioB
    /\ \E side \in Sides : side # positions[1].winning_token
                           /\ SideOf(positions[1], side) = Position

\* C4: for every resolved market calculate_pnl computes the market P&L as the
\* sum over both sides of held * (1 if winner else 0) + sell_proceeds -
\* cost_basis and the hypothetical P&L as bought * (1 if winner else 0) -
\* cost_basis; with no sells the two agree; 100 winner tokens bought at $0.30
\* of which 50 are sold at $0.60 give 50, 70 and a selling edge of -20.
C4_SettlementRule ==
    result # None =>
        /\ \A i \in 1..Len(positions) :
            Resolved(positions[i]) =>
                /\ MarketStep(arith, positions[i], PnlInit).market_pnl
                     = RuleMarketPnl(positions[i])
                /\ MarketStep(arith, positions[i], PnlInit).market_hypothetical
                     = RuleMarketHypo(positions[i])
                /\ result[1].pnl_by_crypto[positions[i].crypto_type]
                     = RuleMarketPnl(positions[i])
                /\ (positions[i].token1.tokens_sold = 0
                        /\ positions[i].token2.tokens_sold = 0) =>
                    MarketStep(arith, positions[i], PnlInit).market_pnl
                      = MarketStep(arith, positions[i], PnlInit).market_hypothetical
        /\ (\A i \in 1..Len(positions) : Resolved(positions[i])) =>
            /\ result[1].total_pnl
                 = SeqSum([i \in 1..Len(positions) |-> RuleMarketPnl(positions[i])])
            /\ result[1].hypothetical_pnl
                 = SeqSum([i \in 1..Len(positions) |-> RuleMarketHypo(positions[i])])
        /\ InScenarioB =>
            /\ result[1].total_pnl = 50 * Dollar
            /\ result[1].hypothetical_pnl = 70 * Dollar
            /\ result[1].selling_edge = -20 * Dollar

\* C4 witness: calculate_pnl has settled the market of scenario B.
C4_Witness == result # None /\ InScenarioB /\ result[1].total_pnl = 50 * Dollar

\* the markets of the dict that are resolved, in order
RECURSIVE ResolvedOnly(_)
ResolvedOnly(dict) ==
    IF dict = <<>> THEN <<>>
    ELSE IF Resolved(Head(dict)) THEN <<Head(dict)>> \o ResolvedOnly(Tail(dict))
    ELSE ResolvedOnly(Tail(dict))

\* C5: a market whose winning_token is unset when calculate_pnl runs adds
\* nothing to total_pnl, hypothetical_pnl, pnl_by_crypto and the winning and
\* losing counts, while its cost basis and sell proceeds are in total_volume
\* and its trades in num_trades.
C5_UnresolvedExcluded ==
    result # None =>
        LET settled == ResolvedOnly(positions)
        IN  /\ result[1].total_pnl
                 = SeqSum([i \in 1..Len(settled) |-> RuleMarketPnl(settled[i])])
            /\ result[1].hypothetical_pnl
                 = SeqSum([i \in 1..Len(settled) |-> RuleMarketHypo(settled[i])])
            /\ \A i \in 1..Len(positions) :
                ~Resolved(positions[i]) =>
                    \/ positions[i].crypto_type \notin DOMAIN result[1].pnl_by_crypto
                    \/ result[1].pnl_by_crypto[positions[i].crypto_type] = 0
            /\ result[1].winning_markets
                 = Cardinality({i \in 1..Len(settled) : RuleMarketPnl(settled[i]) > 0})
            /\ result[1].losing_markets
                 = Cardinality({i \in 1..Len(settled) : RuleMarketPnl(settled[i]) < 0})
            /\ result[1].total_volume
                 = SeqSum([i \in 1..Len(positions) |->
                            positions[i].token1.cost_basis + positions[i].token1.sell_proceeds
                            + positions[i].token2.cost_basis + positions[i].token2.sell_proceeds])
            /\ result[1].num_trades = Len(trades_log)

\* C6: the adverse-selection ratio never divides by zero: when
\* winner_tokens_bought - winner_tokens_sold = 0 the ratio is 0 or omitted
\* and nothing is raised.
C6_NoDivisionByZero ==
    (report # None
        /\ result[1].winner_tokens_bought - result[1].winner_tokens_sold = 0) =>
        /\ report[1].raised = "None"
        /\ report[1].adverse = None \/ report[1].adverse[1].num = 0

\* C7: a BUY whose price is outside [0,1] is rejected: the bought amount,
\* the cost_basis and the replay log are unchanged by it.
C7_BadPriceRejected ==
    Stepping =>
        \A tr \in Rows(nrows + 1) :
            (tr.trader_side = "BUY" /\ (tr.price < 0 \/ tr.price > One)) =>
                /\ Addressed(tr).token_amount = Before(tr).token_amount
                /\ Addressed(tr).cost_basis = Before(tr).cost_basis
                /\ After(tr).trades_log = trades_log

\* C8: across a process_trade step a BUY never decreases the bought amount or
\* the cost_basis and a SELL never decreases tokens_sold or sell_proceeds.
C8_Monotone ==
    Stepping =>
        \A tr \in Rows(nrows + 1) :
            /\ tr.trader_side = "BUY" =>
                /\ Addressed(tr).token_amount >= Before(tr).token_amount
                /\ Addressed(tr).cost_basis >= Before(tr).cost_basis
            /\ tr.trader_side = "SELL" =>
                /\ Addressed(tr).tokens_sold >= Before(tr).tokens_sold
                /\ Addressed(tr).sell_proceeds >= Before(tr).sell_proceeds

\* both instances have taken every row of the frame
AllTaken == nrows = Len(tape) /\ taken = 1..Len(tape)

\* the token position of the frames of one market and token side, in a dict
OrderPos(dict) == TokenPos(dict, 1, "token1")

\* C9 as stated: for a fixed multiset of trades on one market and token side
\* the final bought amount, tokens_sold, cost_basis and sell_proceeds are the
\* same for every order in which the trades are applied.
C9_OrderIndependent_Original ==
    (tape # <<>> /\ Len(shards) = 1 /\ AllTaken) =>
        OrderPos(shards[1].positions) = OrderPos(positions)

\* C9: for a fixed multiset of trades on one market and token side the final
\* bought amount and cost_basis are the same for every order in which the
\* trades are applied (tokens_sold and sell_proceeds depend on the order,
\* because each SELL is clamped to what is held when it is applied).
C9_OrderIndependent ==
    (tape # <<>> /\ Len(shards) = 1 /\ AllTaken) =>
        /\ OrderPos(shards[1].positions).token_amount = OrderPos(positions).token_amount
        /\ OrderPos(shards[1].positions).cost_basis = OrderPos(positions).cost_basis

\* C9 witness: the same rows applied in two orders bought the same and sold
\* differently.
C9_Witness ==
    /\ Len(shards) = 1 /\ AllTaken
    /\ OrderPos(positions).token_amount > 0
    /\ OrderPos(shards[1].positions).token_amount = OrderPos(positions).token_amount
    /\ OrderPos(shards[1].positions).tokens_sold # OrderPos(positions).tokens_sold

\* the scalars of a BacktestResult
Scalars(res) ==
    <<res.total_pnl, res.hypothetical_pnl, res.total_volume, res.winning_markets,
      res.losing_markets, res.num_markets, res.num_trades, res.selling_edge,
      res.winner_tokens_bought, res.loser_tokens_bought, res.winner_tokens_sold,
      res.loser_tokens_sold>>

\* the positions of all instances together
ShardPositions ==
    UNION {{shards[m].positions[i] : i \in 1..Len(shards[m].positions)} : m \in DOMAIN shards}

\* C10: the per-market instances, each applying the rows of its market in
\* their order under any interleaving, end with the positions of the
\* sequential pass, and their merged results have the scalars of the
\* BacktestResult of the sequential pass.
C10_ShardedEqualsSequential ==
    (DOMAIN shards = Markets /\ AllTaken /\ result # None) =>
        /\ ShardPositions = {positions[i] : i \in 1..Len(positions)}
        /\ \A m \in Markets : Len(shards[m].positions) <= 1
        /\ Scalars(MergeResults(ShardResult(1), ShardResult(2))) = Scalars(result[1])

\* C10 witness: both markets traded, with rows of the two markets interleaved
\* in the frame, and the sequential pass and both instances are done.
C10_Witness ==
    /\ DOMAIN shards = Markets /\ AllTaken /\ result # None
    /\ Len(tape) >= 3
    /\ tape[1].market_id # tape[2].market_id
    /\ tape[3].market_id = tape[1].market_id
    /\ \A m \in Markets : ShardResult(m).num_trades > 0
    /\ result[1].total_pnl # 0

\* the dict after differs from the dict before only in the token position the
\* row tr addresses (and in the market entry of tr, if tr is its first row)
FrameKept(tr, before, after) ==
    /\ Len(after) = Len(before) + (IF HasMarket(before, tr.market_id) THEN 0 ELSE 1)
    /\ \A i \in 1..Len(before) :
        /\ after[i].market_id = before[i].market_id
        /\ before[i].market_id # tr.market_id => after[i] = before[i]
    /\ \A i \in 1..Len(after) : \A side \in Sides :
        (after[i].market_id # tr.market_id \/ side # tr.nonusdc_side) =>
            SideOf(after[i], side) = TokenPos(before, after[i].market_id, side)

\* C11: a process_trade call changes the accumulators of at most one token
\* position, the token side of the market the trade names; the other side of
\* that market and the positions of every other market are unchanged.
C11_OnePositionChanged ==
    Stepping =>
        \A tr \in Rows(nrows + 1) :
            FrameKept(tr, positions, process_trade(arith, params, positions, tr).positions)

\* C11 witness: both markets are in the ledger, market 1 holds tokens on both
\* sides, and a row of market 2 has been applied after them.
C11_Witness ==
    /\ Len(positions) = 2
    /\ positions[1].market_id = 1
    /\ positions[1].token1.token_amount > 0
    /\ positions[1].token2.token_amount > 0
    /\ positions[2].token1.token_amount > 0
    /\ Len(trades_log) = 3

\* market_pnl - market_hypothetical of one market, as calculate_pnl computes them
MarketEdge(pos) ==
    MarketStep(arith, pos, PnlInit).market_pnl
    - MarketStep(arith, pos, PnlInit).market_hypothetical

\* C13: the reported selling_edge equals total_pnl - hypothetical_pnl and
\* equals the sum over the markets of market_pnl - market_hypothetical.
C13_EdgeLinear ==
    result # None =>
        /\ result[1].selling_edge = result[1].total_pnl - result[1].hypothetical_pnl
        /\ result[1].selling_edge
             = SeqSum([i \in 1..Len(positions) |-> MarketEdge(positions[i])])

\* C13 witness: a result over two traded markets, one of them with a selling
\* edge of its own, and a total selling edge that is not zero.
C13_Witness ==
    /\ result # None
    /\ Len(positions) = 2
    /\ MarketEdge(positions[1]) # 0
    /\ positions[2].token1.token_amount + positions[2].token2.token_amount > 0
    /\ result[1].selling_edge # 0

\* the sum of a field of the winning (won = TRUE) or the other (won = FALSE)
\* token sides of the resolved markets of the dict
RECURSIVE FlowOf(_, _, _)
FlowOf(dict, won, field) ==
    IF dict = <<>> THEN 0
    ELSE FlowOf(Tail(dict), won, field)
         + (IF (Head(dict).winning_token = "token1") = won
            THEN Head(dict).token1[field] ELSE 0)
         + (IF (Head(dict).winning_token = "token2") = won
            THEN Head(dict).token2[field] ELSE 0)

\* C14: the winner and loser token totals accumulate only from resolved
\* markets: the winning side's tokens go to the winner totals, the other
\* side's to the loser totals, and the tokens of a market with an unset
\* winning_token go to neither.
C14_FlowsFromResolved ==
    result # None =>
        /\ result[1].winner_tokens_bought
             = FlowOf(ResolvedOnly(positions), TRUE, "token_amount")
        /\ result[1].winner_tokens_sold
             = FlowOf(ResolvedOnly(positions), TRUE, "tokens_sold")
        /\ result[1].loser_tokens_bought
             = FlowOf(ResolvedOnly(positions), FALSE, "token_amount")
        /\ result[1].loser_tokens_sold
             = FlowOf(ResolvedOnly(positions), FALSE, "tokens_sold")

\* every token position of a dict, by market and token side
AllTokenPos(dict) == [x \in Markets \X Sides |-> TokenPos(dict, x[1], x[2])]

\* the call process_trade(tr) that returned r changed no token position and
\* returned no log entry, and the rows after it are processed as without it
Skipped(tr, r) ==
    /\ r.ret = None
    /\ AllTokenPos(r.positions) = AllTokenPos(positions)
    /\ LogAfter(trades_log, r.ret) = trades_log
    /\ nrows + 1 < MaxTrades =>
        \A next \in Rows(nrows + 2) :
            /\ process_trade(arith, params, r.positions, next).ret
                 = process_trade(arith, params, positions, next).ret
            /\ AllTokenPos(process_trade(arith, params, r.positions, next).positions)
                 = AllTokenPos(process_trade(arith, params, positions, next).positions)

\* C16: a trade whose trader_side is neither BUY nor SELL is skipped without
\* raising: no token position accumulator changes, no replay-log entry is
\* produced, and the following trades are processed as usual.
C16_UnknownSideSkipped ==
    Stepping =>
        \A tr \in Rows(nrows + 1) :
            tr.trader_side \notin {"BUY", "SELL"} =>
                Skipped(tr, process_trade(arith, params, positions, tr))

\* C16 witness: the ledger holds tokens, the log has an entry, and the loop
\* is about to take a row with the trader side HOLD and does nothing with it.
C16_Witness ==
    /\ Stepping
    /\ Len(trades_log) > 0
    /\ \E i \in 1..Len(positions) : positions[i].token1.token_amount > 0
    /\ \E tr \in Rows(nrows + 1) :
        /\ tr.trader_side = "HOLD"
        /\ process_trade(arith, params, positions, tr).ret = None

\* what C20 says of the call process_trade(tr) that returned r and left the
\* addressed token position as after: an entry exactly when the position
\* changed, with the amount applied and usd = amount * price
Logged(tr, before, after, r) ==
    /\ after = before => r.ret = None
    /\ after # before =>
        /\ r.ret # None
        /\ r.ret[1].action = tr.trader_side
        /\ r.ret[1].timestamp = tr.timestamp
        /\ r.ret[1].market_id = tr.market_id
        /\ r.ret[1].token = tr.nonusdc_side
        /\ r.ret[1].price = tr.price
        /\ r.ret[1].amount = (after.token_amount - before.token_amount)
                             + (after.tokens_sold - before.tokens_sold)
        /\ tr.trader_side = "SELL" =>
            r.ret[1].amount = Min(tr.token_amount * params.position_scale,
                                  before.token_amount - before.tokens_sold)
        /\ r.ret[1].usd = r.ret[1].amount * tr.price
        /\ LogAfter(trades_log, r.ret) = Append(trades_log, r.ret[1])

\* C20: the replay log receives exactly one entry for every trade that
\* changed a token position and none for a skipped or no-op trade, so that
\* num_trades is the number of accepted trades; the entry records the amount
\* applied (the clamped amount of a SELL) and usd = amount * price.
C20_LogMatchesLedger ==
    /\ Len(trades_log) <= nrows
    /\ result # None => result[1].num_trades = Len(trades_log)
    /\ Stepping =>
        \A tr \in Rows(nrows + 1) :
            Logged(tr, Before(tr),
                   TokenPos(process_trade(arith, params, positions, tr).positions,
                            tr.market_id, tr.nonusdc_side),
                   process_trade(arith, params, positions, tr))

\* C20 witness: a SELL of 200 was clamped to the 100 tokens held and logged
\* with the amount 100 and usd 70, and a no-op row left no entry.
C20_Witness ==
    /\ params.position_scale = ScaleDen
    /\ nrows = 3
    /\ Len(trades_log) = 2
    /\ trades_log[2].action = "SELL"
    /\ trades_log[2].amount = 100 * Token
    /\ trades_log[2].usd = 70 * Dollar
    /\ result # None
    /\ result[1].num_trades = 2

Malformed(tr) ==
    \/ tr.trader_side \notin {"BUY", "SELL"}
    \/ tr.token_amount < 0
    \/ tr.price < 0
    \/ tr.price > One

\* C15: the result the engine returns exposes, next to the aggregate numbers,
\* a count of the rejected (malformed) trades and a count of the unresolved
\* markets of the processed stream.
C15_CountsExposed ==
    result # None =>
        \E rejected, unresolved \in DOMAIN result[1] \ ResultFields :
            /\ rejected # unresolved
            /\ result[1][rejected]
                 = Cardinality({i \in 1..Len(tape) : Malformed(tape[i])})
            /\ result[1][unresolved]
                 = Cardinality({i \in 1..Len(positions) : ~Resolved(positions[i])})

\* C18: once the winning_token of a market is a token side, no process_trade
\* and no calculate_pnl call changes it, whatever winning_token later rows of
\* the market carry.
C18_WinnerWriteOnce ==
    [][\A i \in 1..Len(positions) :
         positions[i].winning_token \in Sides =>
            /\ Len(positions') >= i
            /\ positions'[i].market_id = positions[i].market_id
            /\ positions'[i].winning_token = positions[i].winning_token]_vars

\* C18 witness: market 1 was created with the winner token1, a later row of
\* the market carrying the winner token2 was applied, calculate_pnl has run,
\* and the market's winner is still token1.
C18_Witness ==
    /\ pc = "calculated"
    /\ tape # <<>>
    /\ \E i, j \in 1..nrows :
        /\ i < j
        /\ tape[i].market_id = 1 /\ tape[i].winning_token = "token1"
        /\ tape[j].market_id = 1 /\ tape[j].winning_token = "token2"
        /\ \A k \in 1..(i - 1) : tape[k].market_id # 1
    /\ TokenPos(positions, 1, "token1").tokens_sold > 0
    /\ Get(positions, 1).winning_token = "token1"

\* C19: whatever the order of the input rows, the loop of run applies them in
\* non-decreasing timestamp order, and calculate_pnl runs only after every
\* row of the stream has been applied.
C19_TimestampOrder ==
    /\ pc # "sort" =>
        /\ \A i, j \in 1..nrows : i < j => tape[i].timestamp <= tape[j].timestamp
        /\ \A i, j \in 1..Len(trades_log) :
            i < j => trades_log[i].timestamp <= trades_log[j].timestamp
        /\ nrows < Len(tape) /\ nrows > 0 =>
            tape[nrows].timestamp <= tape[nrows + 1].timestamp
    /\ result # None => nrows = Len(tape)

\* C19 witness: a frame of three rows with both timestamps was replayed to
\* its end, two entries with different timestamps were logged, and
\* calculate_pnl has run.
C19_Witness ==
    /\ pc = "calculated"
    /\ Len(tape) = 3
    /\ nrows = 3
    /\ tape[1].timestamp < tape[3].timestamp
    /\ Len(trades_log) >= 2
    /\ trades_log[1].timestamp < trades_log[Len(trades_log)].timestamp

\* the call process_trade(tr) that returned r replicated the row: a BUY in
\* full, a SELL whenever tokens are held
Replicated(tr, held, r) ==
    /\ tr.trader_side = "BUY" =>
        /\ r.ret # None
        /\ r.ret[1].amount = tr.token_amount * params.position_scale
    /\ (tr.trader_side = "SELL" /\ held > 0) =>
        /\ r.ret # None
        /\ r.ret[1].amount = Min(held, tr.token_amount * params.position_scale)

MarketPnl(pos) == MarketStep(arith, pos, PnlInit).market_pnl

\* C21: winning_markets is the number of markets with market_pnl > 0 and
\* losing_markets the number with market_pnl < 0; a market with market_pnl 0
\* counts in neither, so their sum is at most num_markets; the win rate is
\* computed only when the sum is positive.
C21_WinLossCounts ==
    /\ result # None =>
        /\ result[1].winning_markets
             = Cardinality({i \in 1..Len(positions) : MarketPnl(positions[i]) > 0})
        /\ result[1].losing_markets
             = Cardinality({i \in 1..Len(positions) : MarketPnl(positions[i]) < 0})
        /\ result[1].winning_markets + result[1].losing_markets <= result[1].num_markets
        /\ result[1].num_markets = Len(positions)
    /\ report # None =>
        /\ result[1].winning_markets + result[1].losing_markets = 0
             => report[1].win_rate = None
        /\ result[1].winning_markets + result[1].losing_markets > 0
             => /\ report[1].win_rate # None
                /\ report[1].win_rate[1].num = result[1].winning_markets
                /\ report[1].win_rate[1].den
                     = result[1].winning_markets + result[1].losing_markets

\* C21 witness: print_results has reported a win rate over two traded
\* markets, one of which has a P&L of exactly 0 and counts in neither total.
C21_Witness ==
    /\ report # None
    /\ Len(positions) = 2
    /\ \E i \in 1..2 : /\ MarketPnl(positions[i]) = 0
                       /\ positions[i].token1.cost_basis + positions[i].token2.cost_basis > 0
    /\ result[1].winning_markets + result[1].losing_markets = 1
    /\ report[1].win_rate # None

\* C22: total_volume is the sum of cost_basis + sell_proceeds over both token
\* sides of every market of the ledger, resolved or not; a side that
\* calculate_pnl skips for its zero bought amount has nothing to contribute.
C22_TotalVolume ==
    /\ \A i \in 1..Len(positions) :
        /\ positions[i].token1.token_amount = 0 =>
               positions[i].token1.cost_basis = 0 /\ positions[i].token1.sell_proceeds = 0
        /\ positions[i].token2.token_amount = 0 =>
               positions[i].token2.cost_basis = 0 /\ positions[i].token2.sell_proceeds = 0
    /\ result # None =>
        result[1].total_volume
          = SeqSum([i \in 1..Len(positions) |->
                      positions[i].token1.cost_basis + positions[i].token1.sell_proceeds
                      + positions[i].token2.cost_basis + positions[i].token2.sell_proceeds])

\* C22 witness: a result over a resolved and an unresolved market, with a
\* side that was sold out and a side that was never bought.
C22_Witness ==
    /\ result # None
    /\ Len(positions) = 2
    /\ \E i \in 1..2 : ~Resolved(positions[i]) /\ positions[i].token1.cost_basis > 0
    /\ \E i \in 1..2 : \E p \in TokenSides(positions[i]) :
        p.token_amount > 0 /\ p.tokens_sold = p.token_amount /\ p.sell_proceeds > 0
    /\ result[1].total_volume > 0

\* C24: a market position whose tokens_held is negative is not settled:
\* calculate_pnl returns no P&L figures for a ledger that holds one.
C24_NegativeHeldRejected ==
    result # None =>
        \A i \in 1..Len(positions) : \A p \in TokenSides(positions[i]) :
            p.tokens_sold <= p.token_amount

\* the sum of the values of a map
RECURSIVE MapSum(_)
MapSum(f) ==
    IF DOMAIN f = {} THEN 0
    ELSE f[CHOOSE c \in DOMAIN f : TRUE]
         + MapSum([d \in DOMAIN f \ {CHOOSE c \in DOMAIN f : TRUE} |-> f[d]])

\* C23: pnl_by_crypto maps each crypto_type of the ledger to the sum of
\* market_pnl over the markets of that type, so that its values sum to
\* total_pnl.
C23_PnlByCrypto ==
    result # None =>
        /\ DOMAIN result[1].pnl_by_crypto
             = {positions[i].crypto_type : i \in 1..Len(positions)}
        /\ \A c \in DOMAIN result[1].pnl_by_crypto :
            result[1].pnl_by_crypto[c]
              = SeqSum([i \in 1..Len(positions) |->
                          IF positions[i].crypto_type = c
                          THEN MarketPnl(positions[i]) ELSE 0])
        /\ MapSum(result[1].pnl_by_crypto) = result[1].total_pnl

\* C23 witness: a result over three markets of two crypto types, in which
\* two markets with a P&L share a type.
C23_Witness ==
    /\ result # None
    /\ Len(positions) = 3
    /\ Cardinality(DOMAIN result[1].pnl_by_crypto) = 2
    /\ \E i, j \in 1..3 :
        /\ i # j
        /\ positions[i].crypto_type = positions[j].crypto_type
        /\ MarketPnl(positions[i]) # 0
        /\ MarketPnl(positions[j]) # 0

\* the first row of a market among the rows the loop has taken
FirstRow(market_id) ==
    tape[CHOOSE i \in 1..nrows :
            /\ tape[i].market_id = market_id
            /\ \A k \in 1..(i - 1) : tape[k].market_id # market_id]

\* C28: winning_token and crypto_type of a market are those of the first
\* trade processed for it; if that trade carries no winning_token the market
\* is unresolved through calculate_pnl, whatever later trades carry.
C28_FirstTradeFixes ==
    \A i \in 1..Len(positions) :
        /\ positions[i].winning_token = FirstRow(positions[i].market_id).winning_token
        /\ positions[i].crypto_type = FirstRow(positions[i].market_id).crypto_type
        /\ (result # None /\ FirstRow(positions[i].market_id).winning_token = NoToken) =>
            /\ ~Resolved(positions[i])
            /\ MarketStep(arith, positions[i], PnlInit).winner_bought = 0
            /\ MarketStep(arith, positions[i], PnlInit).winner_sold = 0

\* C28 witness: the first row of market 2 carried no winner and the ETH type,
\* later rows of it carried the winners token1 and token2 and the BTC type,
\* and calculate_pnl has settled the market as unresolved.
C28_Witness ==
    /\ result # None
    /\ nrows = 3
    /\ tape[1].market_id = 2 /\ tape[1].winning_token = NoToken
    /\ tape[2].market_id = 2 /\ tape[2].winning_token = "token1"
    /\ tape[3].market_id = 2 /\ tape[3].crypto_type = "BTC"
    /\ positions[1].winning_token = NoToken
    /\ positions[1].crypto_type = "ETH"
    /\ result[1].loser_tokens_bought > 0

\* the patterns config.DURATION_PATTERNS lists under a duration
PatternsOf(duration) ==
    LET j == CHOOSE j \in 1..Len(DURATION_PATTERNS) :
                 DURATION_PATTERNS[j].duration = duration
    IN  DURATION_PATTERNS[j].patterns

\* a marker of the duration appears in the slug, in any case
HasMarker(slug, duration) == AnyPattern(lower(slug), PatternsOf(duration))

\* C25: extract_duration returns '15m' for every slug that contains a
\* 15-minute marker and never '5m' for it; the duration it returns is one
\* whose marker appears in the slug, case-insensitively; and it returns None
\* when no marker of 5m, 15m or 1h appears.
C25_FifteenNotFive ==
    (discovery # None /\ discovery.returned) =>
        /\ HasMarker(discovery.slug, "15m") => discovery.duration = Some("15m")
        /\ discovery.duration # None => HasMarker(discovery.slug, discovery.duration[1])
        /\ (\A d \in {"5m", "15m", "1h"} : ~HasMarker(discovery.slug, d)) =>
               discovery.duration = None

\* the last thing done to the pipeline was a run of main with --stream-only
StreamOnly ==
    /\ pipeline # None
    /\ pipeline.op = "main"
    /\ pipeline.args[1].stream_only

\* C26: in --stream-only mode main starts Phase 2 streaming only if the
\* markets, historical and enriched checkpoints all exist; otherwise it exits
\* with failure, and in either case no Phase 1 stage is run.
C26_StreamOnlyGuard ==
    StreamOnly =>
        /\ pipeline.ran = <<>>
        /\ pipeline.streaming <=> (Stages \subseteq pipeline.checkpoints)
        /\ ~pipeline.streaming => pipeline.exit = 1

\* --stream-only refused with some but not all checkpoints present
C26_Witness ==
    /\ StreamOnly
    /\ pipeline.checkpoints = {"markets", "historical"}
    /\ ~pipeline.streaming
    /\ pipeline.exit = 1

\* C29: from no checkpoints, after any sequence of run_phase1 calls and
\* clear-all operations the enriched checkpoint exists only if the historical
\* one exists, the historical one only if the markets one exists, and whenever
\* run_phase1 returned True all three exist.
C29_CheckpointChain ==
    pipeline # None =>
        /\ "enriched" \in pipeline.checkpoints => "historical" \in pipeline.checkpoints
        /\ "historical" \in pipeline.checkpoints => "markets" \in pipeline.checkpoints
        /\ pipeline.returned = Some("True") => Stages \subseteq pipeline.checkpoints

\* a forced run_phase1 whose Stage 1 failed on top of a complete set of
\* checkpoints: it returns False and the three files stay
C29_Witness ==
    /\ pipeline # None
    /\ pipeline.op = "run_phase1"
    /\ pipeline.returned = Some("False")
    /\ pipeline.ran = <<"markets">>
    /\ pipeline.checkpoints = Stages

\* the number of sleeps a task has finished, given its calls of fetch_chunk_raw
SleepsDue(task) ==
    IF task.pc = "call" THEN Len(task.outcomes) ELSE Len(task.outcomes) - 1

SavedRows(id) ==
    IF scraper.csv = None THEN {}
    ELSE {k \in 1..Len(scraper.csv[1]) : scraper.csv[1][k].id = id}

\* C30: scrape saves every orderFilled event whose timestamp is greater than
\* the resume timestamp exactly once, events that share the last timestamp of
\* a full batch included, and the loop ends once a batch shorter than at_once
\* (or empty) is returned.
C30_EveryEventOnce ==
    (scraper # None /\ scraper.pc = "done") =>
        \A id \in 1..Len(scraper.events) :
            scraper.events[id] > scraper.start => Cardinality(SavedRows(id)) = 1

====
